---- MODULE Spec2Model ----
(***************************************************************************)
(* A model of the OpenRouter MCP server (src/src/server.ts): the response  *)
(* normalizer extractMessageContent, the retry loop retryWithBackoff, the  *)
(* tool and resource request handlers, and the chat and comparison         *)
(* orchestrators built on them.                                            *)
(*                                                                         *)
(* JavaScript values are tagged records [t |-> <typeof>, v |-> <payload>]. *)
(* Text is modelled by TLA+ strings, concatenated with \o.                 *)
(***************************************************************************)
EXTENDS Integers, Sequences, FiniteSets, TLC

VARIABLES
    req,      \* the protocol request being handled
    pc,       \* position of the request handler
    tasks,    \* the retryWithBackoff invocations in flight, by position
    gets,     \* the GET /models requests issued for this request
    thrown,   \* the exception raised inside the handler's try block, if any
    results,  \* compareModels: the values Promise.all collects, by position
    overtaken,\* compareModels: some call completed before an earlier-listed one
    reply,    \* what the handler hands back to the protocol layer
    probe     \* extractMessageContent called on its own: input and output

vars == <<req, pc, tasks, gets, thrown, results, overtaken, reply, probe>>

----------------------------------------------------------------------------
(* JavaScript values *)

Undefined == [t |-> "undefined", v |-> ""]
Null      == [t |-> "null", v |-> ""]
Str(s)    == [t |-> "string", v |-> s]
Num(s)    == [t |-> "number", v |-> s]      \* payload: the decimal text
Arr(q)    == [t |-> "array", v |-> q]

IsString(x) == x.t = "string"

\* JavaScript truthiness of a tagged value
Truthy(x) ==
    CASE x.t = "undefined" -> FALSE
      [] x.t = "null"      -> FALSE
      [] x.t = "string"    -> x.v # ""
      [] x.t = "number"    -> x.v # "0"
      [] OTHER             -> TRUE

RECURSIVE NatToStr(_)
NatToStr(n) ==
    LET d == n % 10
        c == SubSeq("0123456789", d + 1, d + 1)
    IN  IF n < 10 THEN c ELSE NatToStr(n \div 10) \o c

RECURSIVE Pow2(_)
Pow2(n) == IF n = 0 THEN 1 ELSE 2 * Pow2(n - 1)

----------------------------------------------------------------------------
(* extractMessageContent, server.ts 60-87 *)

\* .filter((part) => part.type === "text" && typeof part.text === "string")
IsTextPart(part) == part.type = "text" /\ IsString(part.text)

\* a join that puts a space between the parts
RECURSIVE JoinTextPartsSpaced(_)
JoinTextPartsSpaced(parts) ==
    IF parts = <<>> THEN ""
    ELSE LET part == Head(parts)
             rest == JoinTextPartsSpaced(Tail(parts))
         IN  IF IsTextPart(part)
             THEN part.text.v \o (IF rest = "" THEN "" ELSE " " \o rest)
             ELSE rest

\* .filter(...).map((part) => part.text).join("")
RECURSIVE JoinTextParts(_)
JoinTextParts(parts) ==
    IF parts = <<>> THEN ""
    ELSE LET part == Head(parts)
         IN  (IF IsTextPart(part) THEN part.text.v ELSE "")
                 \o JoinTextParts(Tail(parts))

\* textParts || null
OrNull(s) == IF s = "" THEN Null ELSE Str(s)

ExtractReasoning(message) ==
    IF Truthy(message.reasoning_content) /\ IsString(message.reasoning_content)
    THEN message.reasoning_content
    ELSE Null

ExtractContent(message) ==
    CASE message.content.t = "null"      -> Null
      [] message.content.t = "undefined" -> Null
      [] message.content.t = "string"    -> message.content
      [] message.content.t = "array"     -> OrNull(JoinTextParts(message.content.v))
      [] OTHER                           -> Null

extractMessageContent(message) ==
    [content |-> ExtractContent(message), reasoning |-> ExtractReasoning(message)]

----------------------------------------------------------------------------
(* Bounds and sampled inputs *)

MaxParts == 3           \* longest content-part list given to the normalizer
MaxRetriesBound == 3    \* largest maxRetries handed to retryWithBackoff directly

DefaultMaxRetries == 3
DefaultBaseDelay == 1000
JitterRange == 1000

\* values Math.random() * 1000 may take (floored to whole milliseconds)
JitterSamples == {0, 999}
BaseDelaySamples == {1, 1000}

----------------------------------------------------------------------------
(* The remote API as seen through axios *)

NoData == [kind |-> "none"]
NoError == [name |-> "", message |-> "", hasResponse |-> FALSE, status |-> 0, seq |-> 0]

\* axios rejects with an AxiosError: with a response for an HTTP error status,
\* without one for a network failure. seq identifies the call that produced it.
AxiosStatusError(status, k) ==
    [name |-> "AxiosError",
     message |-> "Request failed with status code " \o NatToStr(status),
     hasResponse |-> TRUE, status |-> status, seq |-> k]

NetworkError(k) ==
    [name |-> "AxiosError", message |-> "Network Error",
     hasResponse |-> FALSE, status |-> 0, seq |-> k]

JsError(name, message) ==
    [name |-> name, message |-> message, hasResponse |-> FALSE, status |-> 0, seq |-> 0]

Usage(p, c) == [present |-> TRUE, prompt_tokens |-> p, completion_tokens |-> c,
                total_tokens |-> p + c]
NoUsage == [present |-> FALSE, prompt_tokens |-> 0, completion_tokens |-> 0,
            total_tokens |-> 0]

TextPart(s) == [type |-> "text", text |-> Str(s)]
ImagePart == [type |-> "image_url", text |-> Undefined]

Message(content, reasoning) == [content |-> content, reasoning_content |-> reasoning]

ChatData(choices, usage) == [kind |-> "chat", choices |-> choices, usage |-> usage]

\* chat-completion response bodies the remote API is taken to return
ReplyPlain == ChatData(<<[message |-> Message(Str("hello"), Undefined)]>>, Usage(1, 1))
ReplyParts ==
    ChatData(<<[message |-> Message(Arr(<<TextPart("A"), ImagePart, TextPart("B")>>),
                                    Str("think"))]>>, Usage(2, 3))
ReplyEmpty == ChatData(<<[message |-> Message(Null, Undefined)]>>, Usage(1, 0))
ReplyNoChoices == ChatData(<<>>, Usage(1, 0))
ReplyNoUsage == ChatData(<<[message |-> Message(Str("hello"), Undefined)]>>, NoUsage)

\* what one remote call may end with: HTTP status 200 with a body, an HTTP
\* error status, or no response at all (status 0)
Ok(data) == [status |-> 200, data |-> data]
Fail(status) == [status |-> status, data |-> NoData]

AllOutcomes ==
    {Ok(ReplyPlain), Ok(ReplyEmpty)} \cup {Fail(s) : s \in {429, 402, 500, 404, 0}}

ErrorOf(outcome, k) ==
    IF outcome.status = 0 THEN NetworkError(k) ELSE AxiosStatusError(outcome.status, k)

----------------------------------------------------------------------------
(* retryWithBackoff, server.ts 90-114 *)

\* a classification that retries every 4xx status
IsRetryableErrorAny4xx(error) ==
    error.hasResponse /\ error.status >= 400 /\ error.status < 500

\* error.response?.status === 429 || error.response?.status === 402
IsRetryableError(error) ==
    error.hasResponse /\ (error.status = 429 \/ error.status = 402)

\* a backoff that grows linearly instead of doubling
BackoffDelayLinear(baseDelay, attempt, jitter) == baseDelay * (attempt + 1) + jitter

\* baseDelay * Math.pow(2, attempt) + Math.random() * 1000
BackoffDelay(baseDelay, attempt, jitter) == baseDelay * Pow2(attempt) + jitter

\* a retry test that allows one retry too many
ShouldRetryOffByOne(error, attempt, maxRetries) ==
    IsRetryableError(error) /\ attempt <= maxRetries

\* the condition under which a caught error is retried rather than re-thrown
ShouldRetry(error, attempt, maxRetries) ==
    IsRetryableError(error) /\ attempt < maxRetries

\* what the catch block re-throws
Rethrown(error) == error

\* a loop test that stops one attempt short
LoopEnterStrict(t) ==
    IF t.attempt < t.maxRetries
    THEN [t EXCEPT !.pc = "call", !.attempts = @ + 1, !.posts = Append(@, t.body),
                   !.delay = 0, !.slept = 0]
    ELSE [t EXCEPT !.pc = "threw", !.delay = 0, !.slept = 0,
                   !.error = JsError("Error", "Max retries exceeded")]

\* the for loop's test, and the invocation of operation() when it passes.
\* attempts, posts, nDelays and log record what has happened so far.
LoopEnter(t) ==
    IF t.attempt <= t.maxRetries
    THEN [t EXCEPT !.pc = "call", !.attempts = @ + 1, !.posts = Append(@, t.body),
                   !.delay = 0, !.slept = 0]
    ELSE [t EXCEPT !.pc = "threw", !.delay = 0, !.slept = 0,
                   !.error = JsError("Error", "Max retries exceeded")]

\* retryWithBackoff(operation, maxRetries, baseDelay) up to its first await
NewTask(model, body, maxRetries, baseDelay) ==
    LoopEnter([model |-> model, body |-> body, maxRetries |-> maxRetries,
               baseDelay |-> baseDelay, attempt |-> 0, pc |-> "init",
               attempts |-> 0, posts |-> <<>>, nDelays |-> 0, log |-> <<>>,
               delay |-> 0, slept |-> 0, value |-> NoData, error |-> NoError])

\* the awaited operation settles: return its value, or run the catch block
OnSettle(t, outcome, jitter) ==
    LET logged == [t EXCEPT !.log = Append(@, outcome)]
        error == ErrorOf(outcome, t.attempts)
    IN  IF outcome.status = 200
        THEN [logged EXCEPT !.pc = "returned", !.value = outcome.data]
        ELSE IF ShouldRetry(error, t.attempt, t.maxRetries)
             THEN [logged EXCEPT !.pc = "sleep", !.nDelays = @ + 1, !.slept = 0,
                                 !.delay = BackoffDelay(t.baseDelay, t.attempt, jitter)]
             ELSE [logged EXCEPT !.pc = "threw", !.error = Rethrown(error)]

\* setTimeout(resolve, delay) fires once the delay has elapsed
TimerDue(t) == t.slept >= t.delay

\* continue: attempt++ and the loop test
OnWake(t) == LoopEnter([t EXCEPT !.attempt = @ + 1])

Settled(t) == t.pc \in {"returned", "threw"}

TaskSettle(i, outcomes, jitters) ==
    /\ tasks[i].pc = "call"
    /\ \E outcome \in outcomes, jitter \in jitters :
          tasks' = [tasks EXCEPT ![i] = OnSettle(@, outcome, jitter)]
    /\ UNCHANGED <<req, pc, gets, thrown, results, overtaken, reply, probe>>

TaskElapse(i) ==
    /\ tasks[i].pc = "sleep"
    /\ tasks[i].slept < tasks[i].delay
    /\ tasks' = [tasks EXCEPT ![i].slept = tasks[i].delay]
    /\ UNCHANGED <<req, pc, gets, thrown, results, overtaken, reply, probe>>

TaskWake(i) ==
    /\ tasks[i].pc = "sleep"
    /\ TimerDue(tasks[i])
    /\ tasks' = [tasks EXCEPT ![i] = OnWake(@)]
    /\ UNCHANGED <<req, pc, gets, thrown, results, overtaken, reply, probe>>

----------------------------------------------------------------------------
(* retryWithBackoff called on its own with every maxRetries and baseDelay *)

NoArgs ==
    [isObject |-> FALSE, model |-> Undefined, models |-> Undefined,
     message |-> Undefined, max_tokens |-> Undefined, temperature |-> Undefined,
     system_prompt |-> Undefined]
NoRequest == [kind |-> "none", name |-> "", uri |-> "", args |-> NoArgs]
NoReply == [type |-> "none", text |-> "", blocks |-> <<>>]
NoOutcome == [status |-> -1, data |-> NoData]
NoGets == [issued |-> 0, outcome |-> NoOutcome]
NoProbe == [called |-> FALSE, msg |-> Message(Null, Undefined),
            out |-> [content |-> Null, reasoning |-> Null]]

RetryBody == [model |-> "A", messages |-> <<>>]

InitRetry ==
    /\ req = NoRequest
    /\ pc = "retry"
    /\ \E m \in -1 .. MaxRetriesBound, b \in BaseDelaySamples :
          tasks = <<NewTask("A", RetryBody, m, b)>>
    /\ gets = NoGets
    /\ thrown = NoError
    /\ results = <<>>
    /\ overtaken = FALSE
    /\ reply = NoReply
    /\ probe = NoProbe

RetrySettle == TaskSettle(1, AllOutcomes, JitterSamples)
RetryElapse == TaskElapse(1)
RetryWake == TaskWake(1)

NextRetry == RetrySettle \/ RetryElapse \/ RetryWake

SpecRetry == InitRetry /\ [][NextRetry]_vars

----------------------------------------------------------------------------
(* Properties of retryWithBackoff *)

TransientStatus(outcome) == outcome.status = 429 \/ outcome.status = 402
FatalStatus(outcome) == outcome.status # 200 /\ ~TransientStatus(outcome)
AllTransient(log) == \A k \in 1 .. Len(log) : TransientStatus(log[k])

\* the error a caller sees is the one the n-th call of the operation produced
IsErrorOfCall(error, log, n) ==
    /\ error.name = "AxiosError"
    /\ error.seq = n
    /\ error.status = log[n].status
    /\ error.hasResponse = (log[n].status # 0)

\* C1: with maxRetries >= 0 and a transient status (429 or 402) on every
\* attempt so far, retryWithBackoff keeps going until the operation has been
\* invoked exactly maxRetries + 1 times, and then fails with the error of
\* the last attempt.
RetryExhaustion ==
    \A i \in DOMAIN tasks :
        LET t == tasks[i]
            n == Len(t.log)
        IN  (t.maxRetries >= 0 /\ AllTransient(t.log)) =>
                /\ t.attempts <= t.maxRetries + 1
                /\ IF n = t.maxRetries + 1
                   THEN /\ t.pc = "threw"
                        /\ t.attempts = n
                        /\ IsErrorOfCall(t.error, t.log, n)
                   ELSE ~Settled(t)

RetryExhaustionWitness ==
    \E i \in DOMAIN tasks :
        LET t == tasks[i]
            n == Len(t.log)
        IN  /\ t.maxRetries = 3
            /\ n = 4
            /\ AllTransient(t.log)
            /\ t.log[1].status = 402
            /\ t.log[4].status = 429
            /\ t.pc = "threw"

\* C2: once an attempt fails with anything but 429 or 402 (another HTTP
\* status, or no response), retryWithBackoff has thrown that very error, no
\* delay was started after the failure and no further attempt is made.
FatalPropagatesImmediately ==
    \A i \in DOMAIN tasks :
        LET t == tasks[i]
            n == Len(t.log)
        IN  (n > 0 /\ FatalStatus(t.log[n])) =>
                /\ t.pc = "threw"
                /\ IsErrorOfCall(t.error, t.log, n)
                /\ t.attempts = n
                /\ t.nDelays = n - 1

FatalPropagatesWitness ==
    \E i \in DOMAIN tasks :
        LET t == tasks[i]
        IN  /\ t.maxRetries = 3
            /\ Len(t.log) = 2
            /\ t.log[1].status = 429
            /\ t.log[2].status = 0
            /\ t.pc = "threw"
            /\ t.attempts = 2

\* C3: when the first k <= maxRetries attempts fail with 429 or 402 the
\* operation is tried again, and when attempt k + 1 then succeeds
\* retryWithBackoff returns that result after exactly k + 1 attempts.
SuccessAfterTransients ==
    \A i \in DOMAIN tasks :
        LET t == tasks[i]
            n == Len(t.log)
        IN  /\ (t.maxRetries >= 0 /\ AllTransient(t.log) /\ n <= t.maxRetries) =>
                   ~Settled(t)
            /\ (n > 0 /\ t.log[n].status = 200) =>
                   /\ AllTransient(SubSeq(t.log, 1, n - 1))
                   /\ n - 1 <= t.maxRetries
                   /\ t.pc = "returned"
                   /\ t.value = t.log[n].data
                   /\ t.attempts = n

SuccessAfterTransientsWitness ==
    \E i \in DOMAIN tasks :
        LET t == tasks[i]
        IN  /\ t.maxRetries = 3
            /\ Len(t.log) = 3
            /\ t.log[1].status = 429
            /\ t.log[2].status = 429
            /\ t.log[3].status = 200
            /\ t.pc = "returned"
            /\ t.attempts = 3

\* the delay started after the n-th attempt failed (attempt number n - 1
\* counting from 0) is baseDelay * 2^(n-1) plus a jitter in [0, 1000)
DelayInRange(t) ==
    LET low == t.baseDelay * (2 ^ (Len(t.log) - 1))
    IN  low <= t.delay /\ t.delay < low + JitterRange

BackoffShape ==
    \A i \in DOMAIN tasks :
        LET t == tasks[i]
        IN  /\ t.pc = "sleep" => (t.nDelays = t.attempts /\ DelayInRange(t))
            /\ t.pc = "call" => t.nDelays = t.attempts - 1
            /\ (Settled(t) /\ t.attempts > 0) => t.nDelays = t.attempts - 1

AttemptWaitsForDelay ==
    \A i \in DOMAIN tasks \cap DOMAIN tasks' :
        tasks'[i].attempts > tasks[i].attempts =>
            /\ tasks[i].pc = "sleep"
            /\ tasks[i].slept >= tasks[i].delay
            /\ tasks'[i].attempts = tasks[i].attempts + 1

\* C10: one backoff delay lies between any two consecutive attempts and none
\* follows the last; the delay after failed attempt i is baseDelay * 2^i plus
\* a jitter in [0, 1000); the next attempt starts only once it has elapsed.
BackoffSchedule == []BackoffShape /\ [][AttemptWaitsForDelay]_vars

BackoffScheduleWitness ==
    \E i \in DOMAIN tasks :
        LET t == tasks[i]
        IN  /\ t.baseDelay = 1000
            /\ Len(t.log) = 4
            /\ t.nDelays = 3
            /\ t.log[4].status = 200
            /\ t.pc = "returned"

----------------------------------------------------------------------------
(* extractMessageContent called on its own with every sampled message *)

PartSamples ==
    {[type |-> "text", text |-> Str("A")],
     [type |-> "text", text |-> Str("B")],
     [type |-> "text", text |-> Str("")],
     [type |-> "text", text |-> Undefined],
     [type |-> "text", text |-> Num("5")],
     [type |-> "image_url", text |-> Undefined],
     [type |-> "image_url", text |-> Str("X")]}

PartLists == UNION {[1 .. n -> PartSamples] : n \in 0 .. MaxParts}

ContentSamples ==
    {Undefined, Null, Num("7"), Str(""), Str("A"), Str("hello world")}
        \cup {Arr(q) : q \in PartLists}

ReasoningSamples == {Undefined, Null, Str(""), Str("think"), Num("1")}

ProbeMessages == {Message(c, r) : c \in ContentSamples, r \in ReasoningSamples}

InitProbe ==
    /\ req = NoRequest
    /\ pc = "probe"
    /\ tasks = <<>>
    /\ gets = NoGets
    /\ thrown = NoError
    /\ results = <<>>
    /\ overtaken = FALSE
    /\ reply = NoReply
    /\ \E m \in ProbeMessages : probe = [NoProbe EXCEPT !.msg = m]

ProbeExtract ==
    /\ ~probe.called
    /\ probe' = [probe EXCEPT !.called = TRUE, !.out = extractMessageContent(probe.msg)]
    /\ UNCHANGED <<req, pc, tasks, gets, thrown, results, overtaken, reply>>

NextProbe == ProbeExtract

SpecProbe == InitProbe /\ [][NextProbe]_vars

\* the text payloads of the text-kind parts, in order
TextPayloads(parts) ==
    LET kept == SelectSeq(parts, LAMBDA p : p.type = "text" /\ p.text.t = "string")
    IN  [k \in 1 .. Len(kept) |-> kept[k].text.v]

\* s is the concatenation of the strings of q, in order, with nothing between
RECURSIVE IsConcat(_, _)
IsConcat(s, q) ==
    IF q = <<>> THEN s = ""
    ELSE LET n == Len(q[Len(q)])
         IN  /\ Len(s) >= n
             /\ SubSeq(s, Len(s) - n + 1, Len(s)) = q[Len(q)]
             /\ IsConcat(SubSeq(s, 1, Len(s) - n), SubSeq(q, 1, Len(q) - 1))

\* C8: content is absent for a null or undefined content, the text verbatim
\* for a string, and for a list of parts the concatenation, in order and with
\* no separator, of the text payloads of its text-kind parts, or absent
\* (never the empty string) when that concatenation is empty.
NormalizedContent ==
    probe.called =>
        LET c == probe.msg.content
            out == probe.out.content
        IN  /\ c.t \in {"null", "undefined"} => out = Null
            /\ c.t = "string" => out = c
            /\ c.t = "array" =>
                  /\ out # Str("")
                  /\ IF out = Null
                     THEN IsConcat("", TextPayloads(c.v))
                     ELSE out.t = "string" /\ IsConcat(out.v, TextPayloads(c.v))
            /\ c = Arr(<<TextPart("A"), ImagePart, TextPart("B")>>) => out = Str("AB")
            /\ (c.t = "array" /\ \A k \in DOMAIN c.v : c.v[k].type # "text") => out = Null

NormalizedContentWitness ==
    /\ probe.called
    /\ probe.msg.content = Arr(<<TextPart("B"), ImagePart, TextPart("A")>>)
    /\ probe.out.content = Str("BA")

----------------------------------------------------------------------------
(* Protocol requests and replies *)

MaxModels == 3          \* longest model list given to compare_models

Args(model, models, message, max_tokens, temperature, system_prompt) ==
    [isObject |-> TRUE, model |-> model, models |-> models, message |-> message,
     max_tokens |-> max_tokens, temperature |-> temperature,
     system_prompt |-> system_prompt]

ToolCall(name, args) == [kind |-> "tool", name |-> name, uri |-> "", args |-> args]
ResourceRead(uri) == [kind |-> "resource", name |-> "", uri |-> uri, args |-> NoArgs]

Content(text, blocks) == [type |-> "content", text |-> text, blocks |-> blocks]
Contents(text) == [type |-> "contents", text |-> text, blocks |-> <<>>]
Fault(message) == [type |-> "fault", text |-> message, blocks |-> <<>>]

\* how an async handler body ends: with a value, or with an exception
Returned(value) == [threw |-> FALSE, value |-> value, error |-> NoError]
Threw(error) == [threw |-> TRUE, value |-> NoReply, error |-> error]

\* reading a property of undefined
TypeErrorReading(prop) ==
    JsError("TypeError",
            "Cannot read properties of undefined (reading '" \o prop \o "')")

RECURSIVE JoinWith(_, _)
JoinWith(q, sep) ==
    IF q = <<>> THEN ""
    ELSE IF Len(q) = 1 THEN q[1]
    ELSE q[1] \o sep \o JoinWith(Tail(q), sep)

\* `${value}` in a template literal
ToText(x) ==
    CASE x.t = "undefined" -> "undefined"
      [] x.t = "null"      -> "null"
      [] OTHER             -> x.v

\* `${error}`: Error.prototype.toString
ErrorToString(error) == error.name \o ": " \o error.message

ModelName(k) == "m" \o NatToStr(k)
ModelLists ==
    {[k \in 1 .. n |-> ModelName(k)] : n \in 0 .. MaxModels}
        \cup {<<ModelName(2), ModelName(1)>>, <<ModelName(1), ModelName(1)>>}

ChatRequests ==
    {ToolCall("chat_with_model", NoArgs)} \cup
    {ToolCall("chat_with_model", Args(m, Undefined, msg, mt, tp, sp)) :
        m \in {Undefined, Str("m1"), Num("1")},
        msg \in {Undefined, Str("hi")},
        mt \in {Undefined, Num("50"), Str("many")},
        tp \in {Undefined, Num("0")},
        sp \in {Undefined, Str(""), Str("be brief"), Num("7")}}

CompareRequests ==
    {ToolCall("compare_models", NoArgs)} \cup
    {ToolCall("compare_models", Args(Undefined, ms, msg, mt, Undefined, Undefined)) :
        ms \in {Undefined, Str("m1"), Arr(<<Str("m1"), Num("2")>>)}
                  \cup {Arr([k \in DOMAIN q |-> Str(q[k])]) : q \in ModelLists},
        msg \in {Undefined, Str("hi")},
        mt \in {Undefined, Str("many")}}

GetModelInfoRequests ==
    {ToolCall("get_model_info", NoArgs)} \cup
    {ToolCall("get_model_info",
              Args(m, Undefined, Undefined, Undefined, Undefined, Undefined)) :
        m \in {Undefined, Str("m1"), Str("m9"), Num("1")}}

ListModelsRequests ==
    {ToolCall("list_models", NoArgs),
     ToolCall("list_models",
              Args(Undefined, Undefined, Undefined, Undefined, Undefined, Undefined))}

UnknownToolRequests == {ToolCall("delete_model", NoArgs)}

CatalogUris == {"openrouter://models", "openrouter://pricing"}
UsageUri == "openrouter://usage"
UnknownUris == {"openrouter://keys"}

\* GET /models response bodies: data.data lists the models
Catalog(entries) == [kind |-> "catalog", data |-> entries]
CatalogEntry(id) == [id |-> id, name |-> "Model " \o id]
GetOutcomes ==
    {Ok(Catalog(<<>>)), Ok(Catalog(<<CatalogEntry("m1"), CatalogEntry("m2")>>))}
        \cup {Fail(s) : s \in {429, 500, 0}}

\* JSON.stringify(value, null, 2): the texts below are the ones it writes for
\* a value nested `depth` levels deep. The strings of the model hold no
\* character that JSON escapes.
RECURSIVE Spaces(_)
Spaces(n) == IF n = 0 THEN "" ELSE " " \o Spaces(n - 1)

JsonQuote(s) == "\"" \o s \o "\""

JsonProp(key, text) == JsonQuote(key) \o ": " \o text

\* an array or an object: one item per line, indented two spaces per level;
\* an empty one is written [] or {}
JsonBlock(open, close, items, depth) ==
    IF items = <<>> THEN open \o close
    ELSE open \o "\n"
         \o JoinWith([k \in DOMAIN items |-> Spaces(2 * (depth + 1)) \o items[k]], ",\n")
         \o "\n" \o Spaces(2 * depth) \o close

\* model.<key>: undefined for a property the entry does not have
EntryField(m, key) == IF key \in DOMAIN m THEN Str(m[key]) ELSE Undefined

\* the properties an entry of the catalog has of its own, in their order
OwnKeys == <<"id", "name">>

\* an object with the properties `keys` read off the entry m; a property
\* whose value is undefined is not written
JsonOfEntry(m, keys, depth) ==
    LET written == SelectSeq(keys, LAMBDA key : EntryField(m, key).t # "undefined")
    IN  JsonBlock("{", "}",
            [k \in DOMAIN written |->
                JsonProp(written[k], JsonQuote(EntryField(m, written[k]).v))],
            depth)

\* an array of such objects
JsonOfEntries(entries, keys, depth) ==
    JsonBlock("[", "]",
        [k \in DOMAIN entries |-> JsonOfEntry(entries[k], keys, depth + 1)], depth)

----------------------------------------------------------------------------
(* ChatRequestSchema and CompareModelsSchema, server.ts 19-31 *)

IsOptional(x, type) == x.t = "undefined" \/ x.t = type

IsStringArray(x) == x.t = "array" /\ \A k \in DOMAIN x.v : IsString(x.v[k])

\* zod's invalid_type issue: the type wanted, the type found and the path,
\* whose elements are kept as JSON texts (a key quoted, an index bare)
Issue(expected, received, path) ==
    [expected |-> expected, received |-> received, path |-> path]

\* the issues of a required property of the given type
Required(x, type, key) ==
    IF x.t = type THEN <<>> ELSE <<Issue(type, x.t, <<JsonQuote(key)>>)>>

\* the issues of an .optional() property of the given type
Optional(x, type, key) ==
    IF IsOptional(x, type) THEN <<>> ELSE <<Issue(type, x.t, <<JsonQuote(key)>>)>>

\* the issues of z.array(z.string()): one for a value that is no array,
\* otherwise one for each element that is no string, at its index
RECURSIVE ElementIssues(_, _, _)
ElementIssues(q, k, key) ==
    IF k > Len(q) THEN <<>>
    ELSE (IF IsString(q[k]) THEN <<>>
          ELSE <<Issue("string", q[k].t, <<JsonQuote(key), NatToStr(k - 1)>>)>>)
         \o ElementIssues(q, k + 1, key)

StringArray(x, key) ==
    IF x.t # "array" THEN <<Issue("array", x.t, <<JsonQuote(key)>>)>>
    ELSE ElementIssues(x.v, 1, key)

\* arguments that are no object at all
RootIssues == <<Issue("object", "undefined", <<>>)>>

\* the issues ChatRequestSchema.parse(args) finds, in the schema's order
ChatIssues(args) ==
    IF ~args.isObject THEN RootIssues
    ELSE Required(args.model, "string", "model")
      \o Required(args.message, "string", "message")
      \o Optional(args.max_tokens, "number", "max_tokens")
      \o Optional(args.temperature, "number", "temperature")
      \o Optional(args.system_prompt, "string", "system_prompt")

\* the issues CompareModelsSchema.parse(args) finds, in the schema's order
CompareIssues(args) ==
    IF ~args.isObject THEN RootIssues
    ELSE StringArray(args.models, "models")
      \o Required(args.message, "string", "message")
      \o Optional(args.max_tokens, "number", "max_tokens")

IssueMessage(issue) ==
    IF issue.received = "undefined" THEN "Required"
    ELSE "Expected " \o issue.expected \o ", received " \o issue.received

JsonOfIssue(issue, depth) ==
    JsonBlock("{", "}",
        <<JsonProp("code", JsonQuote("invalid_type")),
          JsonProp("expected", JsonQuote(issue.expected)),
          JsonProp("received", JsonQuote(issue.received)),
          JsonProp("path", JsonBlock("[", "]", issue.path, depth + 1)),
          JsonProp("message", JsonQuote(IssueMessage(issue)))>>,
        depth)

\* the ZodError parse() throws; its message is the issue list as JSON
ZodError(issues) ==
    JsError("ZodError",
        JsonBlock("[", "]", [k \in DOMAIN issues |-> JsonOfIssue(issues[k], 1)], 0))

\* .optional().default(d)
WithDefault(x, d) == IF x.t = "undefined" THEN d ELSE x

ChatParams(args) ==
    [model |-> args.model.v, message |-> args.message.v,
     max_tokens |-> WithDefault(args.max_tokens, Num("1000")),
     temperature |-> WithDefault(args.temperature, Num("0.7")),
     system_prompt |-> args.system_prompt]

CompareParams(args) ==
    [models |-> [k \in DOMAIN args.models.v |-> args.models.v[k].v],
     message |-> args.message.v,
     max_tokens |-> WithDefault(args.max_tokens, Num("500"))]

----------------------------------------------------------------------------
(* The tools' declared inputSchema, server.ts 201-282 *)

\* args lacks a field the tool's inputSchema requires, or holds a declared
\* field of another type than the schema's
DeclaredMalformed(name, args) ==
    CASE name = "chat_with_model" ->
            \/ ~IsString(args.model)
            \/ ~IsString(args.message)
            \/ ~IsOptional(args.max_tokens, "number")
            \/ ~IsOptional(args.temperature, "number")
            \/ ~IsOptional(args.system_prompt, "string")
      [] name = "compare_models" ->
            \/ ~IsStringArray(args.models)
            \/ ~IsString(args.message)
            \/ ~IsOptional(args.max_tokens, "number")
      [] name = "get_model_info" -> ~IsString(args.model)
      [] OTHER -> FALSE

----------------------------------------------------------------------------
(* The request handlers' try/catch, server.ts 177-194 and 287-314 *)

\* a tool handler that lets the exception escape to the protocol layer
ToolCatchRethrow(name, outcome) ==
    IF outcome.threw THEN Fault(outcome.error.message) ELSE outcome.value

\* catch (error) of the CallToolRequestSchema handler
ToolCatch(name, outcome) ==
    IF outcome.threw
    THEN Content("Error executing " \o name \o ": " \o outcome.error.message, <<>>)
    ELSE outcome.value

\* catch (error) of the ReadResourceRequestSchema handler
ResourceCatch(uri, outcome) ==
    IF outcome.threw
    THEN Fault("Failed to read resource " \o uri \o ": " \o ErrorToString(outcome.error))
    ELSE outcome.value

\* the handler settles: the protocol layer gets its reply or its fault
FinishTool(name, outcome) ==
    /\ thrown' = outcome.error
    /\ reply' = ToolCatch(name, outcome)
    /\ pc' = "done"

FinishResource(uri, outcome) ==
    /\ thrown' = outcome.error
    /\ reply' = ResourceCatch(uri, outcome)
    /\ pc' = "done"

\* a request arrives at the idle server
Fresh(r) ==
    /\ pc = "idle"
    /\ req' = r
    /\ overtaken' = FALSE
    /\ UNCHANGED probe

----------------------------------------------------------------------------
(* chatWithModel, server.ts 395-437 *)

Turn(role, content) == [role |-> role, content |-> content]

\* a conversation that puts the user turn before the system turn
BuildChatMessagesUserFirst(params) ==
    <<Turn("user", params.message)>>
        \o (IF Truthy(params.system_prompt)
            THEN <<Turn("system", params.system_prompt.v)>>
            ELSE <<>>)

\* messages = []; if (system_prompt) push system; push user
BuildChatMessages(params) ==
    (IF Truthy(params.system_prompt)
     THEN <<Turn("system", params.system_prompt.v)>>
     ELSE <<>>)
        \o <<Turn("user", params.message)>>

ChatBody(params) ==
    [model |-> params.model, messages |-> BuildChatMessages(params),
     max_tokens |-> params.max_tokens, temperature |-> params.temperature]

\* the code after the awaited retryWithBackoff returned response.data
ChatRender(model, data) ==
    IF data.choices = <<>> THEN Threw(TypeErrorReading("message"))
    ELSE LET n == extractMessageContent(data.choices[1].message)
             usage == data.usage
         IN  IF ~usage.present THEN Threw(TypeErrorReading("prompt_tokens"))
             ELSE Returned(Content(
                    "**Model:** " \o model \o "\n"
                    \o (IF Truthy(n.reasoning)
                        THEN "**Reasoning:**\n" \o n.reasoning.v \o "\n\n"
                        ELSE "")
                    \o "**Response:** "
                    \o (IF n.content.t = "null" THEN "(no content returned)"
                        ELSE n.content.v)
                    \o "\n\n"
                    \o "**Usage:**\n- Prompt tokens: " \o NatToStr(usage.prompt_tokens)
                    \o "\n- Completion tokens: " \o NatToStr(usage.completion_tokens)
                    \o "\n- Total tokens: " \o NatToStr(usage.total_tokens),
                    <<>>))

ChatOutcomes ==
    {Ok(ReplyPlain), Ok(ReplyParts), Ok(ReplyEmpty), Ok(ReplyNoChoices), Ok(ReplyNoUsage)}
        \cup {Fail(s) : s \in {429, 402, 500, 0}}

\* case "chat_with_model": parse the arguments, build the conversation and
\* make the first call through retryWithBackoff
CallChatWithModel ==
    \E r \in ChatRequests :
        /\ Fresh(r)
        /\ gets' = NoGets
        /\ results' = <<>>
        /\ IF ChatIssues(r.args) # <<>>
           THEN /\ tasks' = <<>>
                /\ FinishTool(r.name, Threw(ZodError(ChatIssues(r.args))))
           ELSE LET params == ChatParams(r.args)
                IN  /\ tasks' = <<NewTask(params.model, ChatBody(params),
                                          DefaultMaxRetries, DefaultBaseDelay)>>
                    /\ pc' = "chat_with_model"
                    /\ thrown' = NoError
                    /\ reply' = NoReply

\* the chat completion call settles; when retryWithBackoff is through, the
\* rest of chatWithModel and the tool handler run
ChatSettle ==
    /\ pc = "chat_with_model"
    /\ tasks[1].pc = "call"
    /\ \E outcome \in ChatOutcomes, jitter \in JitterSamples :
          LET t == OnSettle(tasks[1], outcome, jitter)
          IN  /\ tasks' = <<t>>
              /\ CASE t.pc = "returned" ->
                          FinishTool(req.name, ChatRender(t.model, t.value))
                   [] t.pc = "threw" -> FinishTool(req.name, Threw(t.error))
                   [] OTHER -> UNCHANGED <<pc, thrown, reply>>
    /\ UNCHANGED <<req, gets, results, overtaken, probe>>

----------------------------------------------------------------------------
(* compareModels, server.ts 439-501 *)

ReasoningLimit == 200

NoEntry ==
    [filled |-> FALSE, model |-> "", success |-> FALSE, response |-> Null,
     reasoning |-> Null, usage |-> NoUsage, error |-> ""]

SuccessEntry(model, n, usage) ==
    [filled |-> TRUE, model |-> model, success |-> TRUE, response |-> n.content,
     reasoning |-> n.reasoning, usage |-> usage, error |-> ""]

FailureEntry(model, text) ==
    [filled |-> TRUE, model |-> model, success |-> FALSE, response |-> Null,
     reasoning |-> Null, usage |-> NoUsage, error |-> text]

\* an error text that drops the error's own message
CompareErrorTextUnknown(error) == "Unknown error"

\* error instanceof Error ? error.message : "Unknown error"
CompareErrorText(error) ==
    IF error.name # "" THEN error.message ELSE "Unknown error"

CompareBody(model, params) ==
    [model |-> model, messages |-> <<Turn("user", params.message)>>,
     max_tokens |-> params.max_tokens, temperature |-> Undefined]

\* what the async arrow of models.map resolves with once retryWithBackoff is
\* through: the try block's record, or the catch block's
CompareEntry(t) ==
    IF t.pc = "threw" THEN FailureEntry(t.model, CompareErrorText(t.error))
    ELSE IF t.value.choices = <<>>
         THEN FailureEntry(t.model, CompareErrorText(TypeErrorReading("message")))
         ELSE SuccessEntry(t.model, extractMessageContent(t.value.choices[1].message),
                           t.value.usage)

\* a collection that appends results as they arrive
StoreResultOnArrival(slots, i, entry) ==
    LET k == CHOOSE k \in DOMAIN slots :
                 ~slots[k].filled /\ \A j \in 1 .. k - 1 : slots[j].filled
    IN  [slots EXCEPT ![k] = entry]

\* Promise.all keeps each promise's value at the promise's own index
StoreResult(slots, i, entry) == [slots EXCEPT ![i] = entry]

\* a join that is over as soon as one promise has settled
AllFilledAny(slots) == \E k \in DOMAIN slots : slots[k].filled

AllFilled(slots) == \A k \in DOMAIN slots : slots[k].filled

\* result.reasoning.slice(0, 200) and the ellipsis
TruncateReasoning(text) ==
    IF Len(text) > ReasoningLimit
    THEN SubSeq(text, 1, ReasoningLimit) \o "..."
    ELSE text

\* the callback of results.map; [X] stands for the cross-mark character
RenderBlock(entry) ==
    IF entry.success
    THEN IF ~entry.usage.present THEN Threw(TypeErrorReading("total_tokens"))
         ELSE Returned(
                "**" \o entry.model \o ":**\n"
                \o (IF Truthy(entry.reasoning)
                    THEN "*Reasoning:* " \o TruncateReasoning(entry.reasoning.v) \o "\n\n"
                    ELSE "")
                \o (IF entry.response.t = "null" THEN "(no content)"
                    ELSE entry.response.v)
                \o "\n*Tokens: " \o NatToStr(entry.usage.total_tokens) \o "*")
    ELSE Returned("**" \o entry.model \o ":** [X] Error - " \o entry.error)

\* the code after await Promise.all(promises)
CompareRender(models, slots) ==
    LET rendered == [k \in DOMAIN slots |-> RenderBlock(slots[k])]
        failing == {k \in DOMAIN slots : rendered[k].threw}
    IN  IF failing # {}
        THEN Threw(rendered[CHOOSE k \in failing : \A j \in failing : k <= j].error)
        ELSE LET blocks == [k \in DOMAIN slots |-> rendered[k].value]
             IN  Returned(Content(
                    "Comparison of " \o NatToStr(Len(models)) \o " models:\n\n"
                    \o JoinWith(blocks, "\n\n---\n\n"), blocks))

CompareOutcomes == {Ok(ReplyParts), Ok(ReplyNoUsage), Fail(429), Fail(500)}
\* one jitter value is sampled for the concurrent calls
CompareJitters == {500}

\* case "compare_models": parse the arguments and start one call per model
CallCompareModels ==
    \E r \in CompareRequests :
        /\ Fresh(r)
        /\ gets' = NoGets
        /\ IF CompareIssues(r.args) # <<>>
           THEN /\ tasks' = <<>>
                /\ results' = <<>>
                /\ FinishTool(r.name, Threw(ZodError(CompareIssues(r.args))))
           ELSE LET params == CompareParams(r.args)
                    n == Len(params.models)
                IN  /\ tasks' = [k \in 1 .. n |->
                                    NewTask(params.models[k],
                                            CompareBody(params.models[k], params),
                                            DefaultMaxRetries, DefaultBaseDelay)]
                    /\ results' = [k \in 1 .. n |-> NoEntry]
                    /\ IF n = 0
                       THEN FinishTool(r.name, CompareRender(params.models, <<>>))
                       ELSE /\ pc' = "compare_models"
                            /\ thrown' = NoError
                            /\ reply' = NoReply

\* the i-th model's call settles; when its retryWithBackoff is through its
\* promise resolves, and when that was the last one the report is rendered
CompareSettle(i) ==
    /\ pc = "compare_models"
    /\ tasks[i].pc = "call"
    /\ \E outcome \in CompareOutcomes, jitter \in CompareJitters :
          LET t == OnSettle(tasks[i], outcome, jitter)
              slots == IF Settled(t) THEN StoreResult(results, i, CompareEntry(t))
                       ELSE results
          IN  /\ tasks' = [tasks EXCEPT ![i] = t]
              /\ results' = slots
              /\ overtaken' = (overtaken \/
                                 (Settled(t) /\ \E j \in 1 .. i - 1 : ~results[j].filled))
              /\ IF AllFilled(slots)
                 THEN FinishTool(req.name, CompareRender(CompareParams(req.args).models, slots))
                 ELSE UNCHANGED <<pc, thrown, reply>>
    /\ UNCHANGED <<req, gets, probe>>

----------------------------------------------------------------------------
(* listModels, getModelInfo and the unknown tool, server.ts 291-302, 372-393,
   503-522 *)

GetSettles(outcome) == gets' = [gets EXCEPT !.outcome = outcome]

NoTasks ==
    /\ tasks' = <<>>
    /\ results' = <<>>

\* the properties listModels copies from each entry
ListedKeys == <<"id", "name", "description", "context_length", "pricing">>

\* the code of listModels after the awaited GET
ListModelsRender(outcome) ==
    IF outcome.status # 200 THEN Threw(ErrorOf(outcome, 1))
    ELSE LET models == outcome.data.data
         IN  Returned(Content(
                "Found " \o NatToStr(Len(models)) \o " available models:\n\n"
                \o JsonOfEntries(models, ListedKeys, 0), <<>>))

\* response.data.data.find((m) => m.id === params.model), then the rest of
\* getModelInfo. params is args itself, unchecked.
GetModelInfoRender(args, outcome) ==
    IF outcome.status # 200 THEN Threw(ErrorOf(outcome, 1))
    ELSE IF ~args.isObject THEN Threw(TypeErrorReading("model"))
    ELSE LET entries == outcome.data.data
             hits == {k \in DOMAIN entries : args.model = Str(entries[k].id)}
         IN  IF hits = {}
             THEN Threw(JsError("Error", "Model " \o ToText(args.model) \o " not found"))
             ELSE Returned(Content(
                    JsonOfEntry(entries[CHOOSE k \in hits : \A j \in hits : k <= j],
                                OwnKeys, 0),
                    <<>>))

\* case "list_models"
CallListModels ==
    \E r \in ListModelsRequests :
        /\ Fresh(r)
        /\ NoTasks
        /\ gets' = [issued |-> 1, outcome |-> NoOutcome]
        /\ pc' = "list_models"
        /\ thrown' = NoError
        /\ reply' = NoReply

ListModelsSettle ==
    /\ pc = "list_models"
    /\ \E outcome \in GetOutcomes :
          /\ GetSettles(outcome)
          /\ FinishTool(req.name, ListModelsRender(outcome))
    /\ UNCHANGED <<req, tasks, results, overtaken, probe>>

\* case "get_model_info": args as { model: string }
CallGetModelInfo ==
    \E r \in GetModelInfoRequests :
        /\ Fresh(r)
        /\ NoTasks
        /\ gets' = [issued |-> 1, outcome |-> NoOutcome]
        /\ pc' = "get_model_info"
        /\ thrown' = NoError
        /\ reply' = NoReply

GetModelInfoSettle ==
    /\ pc = "get_model_info"
    /\ \E outcome \in GetOutcomes :
          /\ GetSettles(outcome)
          /\ FinishTool(req.name, GetModelInfoRender(req.args, outcome))
    /\ UNCHANGED <<req, tasks, results, overtaken, probe>>

\* default: throw new Error(`Unknown tool: ${name}`)
CallUnknownTool ==
    \E r \in UnknownToolRequests :
        /\ Fresh(r)
        /\ NoTasks
        /\ gets' = NoGets
        /\ FinishTool(r.name, Threw(JsError("Error", "Unknown tool: " \o r.name)))

----------------------------------------------------------------------------
(* The resource handlers, server.ts 177-194 and 318-369 *)

\* the properties getPricingResource copies from each entry
PricedKeys == <<"id", "name", "pricing">>

\* getModelsResource, which writes the whole response body, and
\* getPricingResource, after the awaited GET
CatalogResourceRender(uri, outcome) ==
    IF outcome.status # 200 THEN Threw(ErrorOf(outcome, 1))
    ELSE IF uri = "openrouter://models"
    THEN Returned(Contents(
            JsonBlock("{", "}",
                <<JsonProp("data", JsonOfEntries(outcome.data.data, OwnKeys, 1))>>, 0)))
    ELSE Returned(Contents(JsonOfEntries(outcome.data.data, PricedKeys, 0)))

UsagePlaceholder ==
    JsonBlock("{", "}",
        <<JsonProp("message", JsonQuote("Usage statistics would be available here")),
          JsonProp("note",
                   JsonQuote("OpenRouter doesn't provide a direct usage API endpoint"))>>,
        0)

\* case "openrouter://models", case "openrouter://pricing"
ReadCatalogResource ==
    \E u \in CatalogUris :
        /\ Fresh(ResourceRead(u))
        /\ NoTasks
        /\ gets' = [issued |-> 1, outcome |-> NoOutcome]
        /\ pc' = "resource"
        /\ thrown' = NoError
        /\ reply' = NoReply

CatalogResourceSettle ==
    /\ pc = "resource"
    /\ \E outcome \in GetOutcomes :
          /\ GetSettles(outcome)
          /\ FinishResource(req.uri, CatalogResourceRender(req.uri, outcome))
    /\ UNCHANGED <<req, tasks, results, overtaken, probe>>

\* case "openrouter://usage"
ReadUsageResource ==
    /\ Fresh(ResourceRead(UsageUri))
    /\ NoTasks
    /\ gets' = NoGets
    /\ FinishResource(UsageUri, Returned(Contents(UsagePlaceholder)))

\* default: throw new Error(`Unknown resource: ${uri}`)
ReadUnknownResource ==
    \E u \in UnknownUris :
        /\ Fresh(ResourceRead(u))
        /\ NoTasks
        /\ gets' = NoGets
        /\ FinishResource(u, Threw(JsError("Error", "Unknown resource: " \o u)))

----------------------------------------------------------------------------
(* The server *)

Init ==
    /\ req = NoRequest
    /\ pc = "idle"
    /\ tasks = <<>>
    /\ gets = NoGets
    /\ thrown = NoError
    /\ results = <<>>
    /\ overtaken = FALSE
    /\ reply = NoReply
    /\ probe = NoProbe

\* the reply has been handed over; the server waits for the next request
NextRequest ==
    /\ pc = "done"
    /\ req' = NoRequest
    /\ pc' = "idle"
    /\ tasks' = <<>>
    /\ gets' = NoGets
    /\ thrown' = NoError
    /\ results' = <<>>
    /\ overtaken' = FALSE
    /\ reply' = NoReply
    /\ UNCHANGED probe

Sleeping == pc \in {"chat_with_model", "compare_models"}

BackoffElapse == \E i \in DOMAIN tasks : Sleeping /\ TaskElapse(i)
BackoffWake == \E i \in DOMAIN tasks : Sleeping /\ TaskWake(i)
CompareSettles == \E i \in DOMAIN tasks : CompareSettle(i)

Next ==
    \/ CallListModels
    \/ CallChatWithModel
    \/ CallCompareModels
    \/ CallGetModelInfo
    \/ CallUnknownTool
    \/ ReadCatalogResource
    \/ ReadUsageResource
    \/ ReadUnknownResource
    \/ ListModelsSettle
    \/ GetModelInfoSettle
    \/ CatalogResourceSettle
    \/ ChatSettle
    \/ CompareSettles
    \/ BackoffElapse
    \/ BackoffWake
    \/ NextRequest

Spec == Init /\ [][Next]_vars

----------------------------------------------------------------------------
(* Properties of compareModels *)

IsCompare == req.kind = "tool" /\ req.name = "compare_models"
Requested == CompareParams(req.args).models
Comparing == IsCompare /\ CompareIssues(req.args) = <<>> /\ pc \in {"compare_models", "done"}

StartsWith(text, prefix) ==
    Len(text) >= Len(prefix) /\ SubSeq(text, 1, Len(prefix)) = prefix

\* the i-th call ended in a failure, or in a success
CallFailed(t) == t.pc = "threw"
CallSucceeded(t) == t.pc = "returned"

\* C4: the result set has one entry per requested position, the i-th entry
\* comes from the i-th model's call, and the i-th block of the report is the
\* i-th model's, whatever the order in which the calls completed.
ResultsInRequestOrder ==
    Comparing =>
        /\ Len(results) = Len(Requested)
        /\ \A i \in DOMAIN results :
              /\ results[i].filled = Settled(tasks[i])
              /\ results[i].filled =>
                    /\ results[i].model = Requested[i]
                    /\ results[i].success => CallSucceeded(tasks[i])
                    /\ CallFailed(tasks[i]) =>
                          results[i].error = tasks[i].error.message
        /\ (pc = "done" /\ thrown = NoError) =>
              /\ Len(reply.blocks) = Len(Requested)
              /\ \A i \in DOMAIN reply.blocks :
                    StartsWith(reply.blocks[i], "**" \o Requested[i] \o ":**")

ResultsInRequestOrderWitness ==
    /\ Comparing
    /\ pc = "done"
    /\ thrown = NoError
    /\ overtaken
    /\ Requested = <<"m1", "m2", "m3">>
    /\ tasks[3].attempts < tasks[1].attempts
    /\ Len(reply.blocks) = 3

\* the reply a model's successful call is normalized to
NormalizedParts == [content |-> Str("AB"), reasoning |-> Str("think")]

\* C5: a failed call becomes that model's own {model, error, success: false}
\* entry and leaves the other entries as their own calls made them; nothing
\* is rendered before every call has settled, and the report then shows the
\* failed model with its error text beside the successful ones.
FailureIsolated ==
    Comparing =>
        /\ \A i \in DOMAIN tasks :
              /\ CallFailed(tasks[i]) =>
                    results[i] = [filled |-> TRUE, model |-> Requested[i],
                                  success |-> FALSE, response |-> Null,
                                  reasoning |-> Null, usage |-> NoUsage,
                                  error |-> tasks[i].error.message]
              /\ (CallSucceeded(tasks[i]) /\ tasks[i].value = ReplyParts) =>
                    /\ results[i].success
                    /\ results[i].model = Requested[i]
                    /\ results[i].response = NormalizedParts.content
                    /\ results[i].reasoning = NormalizedParts.reasoning
              /\ ~Settled(tasks[i]) => (~results[i].filled /\ pc # "done")
        /\ reply # NoReply => \A i \in DOMAIN tasks : Settled(tasks[i])
        /\ (\A i \in DOMAIN tasks : Settled(tasks[i])) => pc = "done"
        /\ (pc = "done" /\ \A i \in DOMAIN tasks :
                               CallSucceeded(tasks[i]) => tasks[i].value.usage.present) =>
              /\ thrown = NoError
              /\ reply.type = "content"
              /\ Len(reply.blocks) = Len(Requested)
              /\ \A i \in DOMAIN tasks :
                    IF CallFailed(tasks[i])
                    THEN reply.blocks[i] =
                            "**" \o Requested[i] \o ":** [X] Error - "
                                \o tasks[i].error.message
                    ELSE StartsWith(reply.blocks[i], "**" \o Requested[i] \o ":**\n")

FailureIsolatedWitness ==
    /\ Comparing
    /\ pc = "done"
    /\ Requested = <<"m1", "m2", "m3">>
    /\ CallSucceeded(tasks[1])
    /\ CallFailed(tasks[2])
    /\ CallSucceeded(tasks[3])
    /\ results[1].success /\ results[1].response = Str("AB")
    /\ ~results[2].success /\ results[2].error = "Request failed with status code 500"
    /\ results[3].success /\ results[3].response = Str("AB")
    /\ Len(reply.blocks) = 3

----------------------------------------------------------------------------
(* Properties of the request handlers *)

\* some HTTP request was sent to the remote API for the current request
AnyRemoteCall == gets.issued > 0 \/ \E i \in DOMAIN tasks : tasks[i].attempts > 0

\* C6: a call of a recognized tool whose arguments are malformed against
\* the tool's declared schema issues no request to the remote API.
MalformedCallIssuesNoRequest ==
    (req.kind = "tool" /\ DeclaredMalformed(req.name, req.args)) => ~AnyRemoteCall

KnownTools == {"list_models", "chat_with_model", "compare_models", "get_model_info"}

IsChat == req.kind = "tool" /\ req.name = "chat_with_model"
IsGetModelInfo == req.kind = "tool" /\ req.name = "get_model_info"

\* the failures a tool invocation can meet
UnknownToolFailure == req.name \notin KnownTools
ValidationFailure ==
    req.name \in {"chat_with_model", "compare_models"}
        /\ DeclaredMalformed(req.name, req.args)
GetFailure == gets.issued > 0 /\ gets.outcome.status \notin {200, -1}
NotFoundFailure ==
    /\ IsGetModelInfo
    /\ gets.outcome.status = 200
    /\ req.args.isObject
    /\ \A k \in DOMAIN gets.outcome.data.data :
          Str(gets.outcome.data.data[k].id) # req.args.model
ChatRemoteFailure == IsChat /\ tasks # <<>> /\ CallFailed(tasks[1])

Describes(text, name, message) == text = "Error executing " \o name \o ": " \o message

\* C7: a tool invocation that fails, for whatever reason, still answers with
\* a text content block that describes the error; a resource read that fails
\* ends in a protocol-level error whose message wraps the underlying error.
BoundaryErrorConvention ==
    pc = "done" =>
        /\ req.kind = "tool" =>
              /\ reply.type = "content"
              /\ (UnknownToolFailure \/ ValidationFailure \/ GetFailure
                     \/ NotFoundFailure \/ ChatRemoteFailure) => thrown # NoError
              /\ thrown # NoError => Describes(reply.text, req.name, thrown.message)
              /\ UnknownToolFailure => thrown.message = "Unknown tool: " \o req.name
              /\ GetFailure => IsErrorOfCall(thrown, <<gets.outcome>>, 1)
              /\ NotFoundFailure =>
                    thrown.message = "Model " \o ToText(req.args.model) \o " not found"
              /\ ChatRemoteFailure => thrown = tasks[1].error
        /\ req.kind = "resource" =>
              /\ (req.uri \in UnknownUris \/ GetFailure) <=> thrown # NoError
              /\ req.uri \in UnknownUris => thrown.message = "Unknown resource: " \o req.uri
              /\ GetFailure => IsErrorOfCall(thrown, <<gets.outcome>>, 1)
              /\ IF thrown # NoError
                 THEN /\ reply.type = "fault"
                      /\ reply.text = "Failed to read resource " \o req.uri \o ": "
                                         \o thrown.name \o ": " \o thrown.message
                 ELSE reply.type = "contents"

BoundaryErrorConventionWitness ==
    /\ pc = "done"
    /\ IsChat
    /\ ChatRemoteFailure
    /\ tasks[1].attempts = DefaultMaxRetries + 1
    /\ reply = Content("Error executing chat_with_model: "
                          \o "Request failed with status code 402", <<>>)

\* the conversation of every request chatWithModel has posted so far
PostedConversations == {tasks[1].posts[k].messages : k \in DOMAIN tasks[1].posts}

ChatRunning == IsChat /\ ChatIssues(req.args) = <<>> /\ pc \in {"chat_with_model", "done"}

SystemThenUser ==
    <<Turn("system", req.args.system_prompt.v), Turn("user", req.args.message.v)>>
UserOnly == <<Turn("user", req.args.message.v)>>

\* C9 as stated: one user turn without a system_prompt, and system-then-user
\* for every system_prompt value supplied, on every attempt.
ConversationForEverySystemPrompt ==
    ChatRunning =>
        /\ Len(tasks[1].posts) = tasks[1].attempts
        /\ tasks[1].attempts >= 1
        /\ PostedConversations =
              {IF req.args.system_prompt.t = "undefined" THEN UserOnly
               ELSE SystemThenUser}

\* C9, amended: one user turn when no system_prompt or an empty one is
\* given, system-then-user for every non-empty system_prompt, and the same
\* conversation on every attempt.
ConversationForNonEmptySystemPrompt ==
    ChatRunning =>
        /\ Len(tasks[1].posts) = tasks[1].attempts
        /\ tasks[1].attempts >= 1
        /\ PostedConversations =
              {IF req.args.system_prompt.t = "undefined" \/ req.args.system_prompt.v = ""
               THEN UserOnly
               ELSE SystemThenUser}

ConversationWitness ==
    /\ ChatRunning
    /\ req.args.system_prompt = Str("be brief")
    /\ tasks[1].attempts = 3
    /\ tasks[1].pc = "returned"
    /\ PostedConversations = {<<Turn("system", "be brief"), Turn("user", "hi")>>}

----------------------------------------------------------------------------
(* Comparisons when every remote call settles and every timer fires *)

MaxCompared == 2        \* longest model list whose comparison is followed to its end

\* compare_models called with at most MaxCompared models
CallShortComparison == CallCompareModels /\ Len(tasks') <= MaxCompared

NextCompare ==
    \/ CallShortComparison
    \/ CompareSettles
    \/ BackoffElapse
    \/ BackoffWake
    \/ NextRequest

\* a remote call, once issued, gets its response or its error; time passes
\* during a backoff delay; a timer that is due fires
FairSpec ==
    /\ Init
    /\ [][NextCompare]_vars
    /\ WF_vars(CompareSettles)
    /\ WF_vars(BackoffElapse)
    /\ WF_vars(BackoffWake)

----------------------------------------------------------------------------
(* Termination and cost of compareModels *)

RECURSIVE SumAttempts(_)
SumAttempts(q) == IF q = <<>> THEN 0 ELSE Head(q).attempts + SumAttempts(Tail(q))

\* compareModels is running: calls are out and nothing has been returned
ComparePending == Comparing /\ pc = "compare_models"

\* every successful call so far brought a reply with its usage counters
RepliesCarryUsage ==
    \A i \in DOMAIN tasks : CallSucceeded(tasks[i]) => tasks[i].value.usage.present

\* compareModels has returned its report: one block per requested model
\* under the heading that counts them
CompareReported ==
    /\ Comparing
    /\ pc = "done"
    /\ thrown = NoError
    /\ reply.type = "content"
    /\ Len(reply.blocks) = Len(Requested)
    /\ StartsWith(reply.text,
                  "Comparison of " \o NatToStr(Len(Requested)) \o " models:\n\n")

\* compareModels has thrown while rendering a successful reply that has no
\* usage object, and the tool handler has answered with the error text
CompareAborted ==
    /\ Comparing
    /\ pc = "done"
    /\ ~RepliesCarryUsage
    /\ thrown = TypeErrorReading("total_tokens")
    /\ reply.type = "content"
    /\ Describes(reply.text, "compare_models", thrown.message)

CompareCost ==
    Comparing =>
        \* at least one call per model, at most maxRetries + 1
        /\ \A i \in DOMAIN tasks :
              /\ tasks[i].attempts >= 1
              /\ tasks[i].attempts <= DefaultMaxRetries + 1
              /\ Len(tasks[i].posts) = tasks[i].attempts
        /\ Len(tasks) = Len(Requested)
        /\ SumAttempts(tasks) <= Len(Requested) * (DefaultMaxRetries + 1)
        \* a model keeps its own retries whatever the others have spent
        /\ \A i \in DOMAIN tasks :
              (AllTransient(tasks[i].log) /\ Len(tasks[i].log) <= DefaultMaxRetries) =>
                  ~Settled(tasks[i])
        \* nothing is returned while a call is still open
        /\ (\E i \in DOMAIN tasks : ~Settled(tasks[i])) =>
              (pc = "compare_models" /\ reply = NoReply)

\* a step of one model's call leaves every other model's call as it was
CallsIndependent ==
    (pc = "compare_models" /\ pc' \in {"compare_models", "done"}) =>
        \A i \in DOMAIN tasks :
            tasks'[i] # tasks[i] => \A j \in DOMAIN tasks \ {i} : tasks'[j] = tasks[j]

\* what a finished comparison has returned: the report exactly when every
\* successful reply carried usage, the rendering error otherwise
ReportUnlessUsageMissing ==
    (Comparing /\ pc = "done") =>
        IF RepliesCarryUsage THEN CompareReported ELSE CompareAborted

====
